---- MODULE Spec2Model ----
(***************************************************************************)
(* A model of linksh's account repository (pkg/repositories) and of its    *)
(* session manager (pkg/sessions).                                         *)
(*                                                                         *)
(* The repository part models UserRepository and every method of it as an  *)
(* operator over the storage's contents; the storage (sto.IStorage), the   *)
(* update payload, bcrypt and checkIfRequesterIsAdmin are collaborators    *)
(* whose code is not part of the modelled files and follow the             *)
(* specification's description of them.                                    *)
(*                                                                         *)
(* The session part models SessionManager: the provider's sessions, the    *)
(* autoGCShouldBeRunning flag, the goroutines EnableAutoGC spawns and the  *)
(* threads that call EnableAutoGC and DisableAutoGC, one memory access per *)
(* step, since the code takes no lock.                                     *)
(***************************************************************************)
EXTENDS Integers, Sequences, FiniteSets, TLC

VARIABLES
    users,      \* the storage's accounts: id -> account, or NoUser
    last,       \* the last repository call: its arguments, result and storage calls
    sessions,   \* the provider's sessions: id -> session, or NoSession
    now,        \* the provider's clock
    autoGCShouldBeRunning,  \* SessionManager.autoGCShouldBeRunning
    loops,      \* the live goroutines EnableAutoGC has spawned, oldest first
    callers,    \* the threads calling EnableAutoGC / DisableAutoGC
    ret,        \* what returned in the last step: a call of the session manager
                \* (Add and the clock leave none), or the loop's call of GC
    hist        \* what the session part's claims need of the past

repoVars == <<users, last>>
smVars == <<sessions, now, autoGCShouldBeRunning, loops, callers, ret, hist>>
vars == <<users, last, sessions, now, autoGCShouldBeRunning, loops, callers, ret, hist>>

----------------------------------------------------------------------------
(* Bounds *)

NumIds == 2
NumCallers == 2
MaxLoops == 2
NumSessions == 1
MaxNow == 2
Lifetime == 1

(* Program constants *)

MaxNameLen == 100
MinPasswordLen == 6

----------------------------------------------------------------------------
(* Values *)

Ids == 1..NumIds

\* A string (or byte slice) of n times the character c, and its length.
Rep(c, n) == [c |-> c, n |-> n]
StrLen(s) == s.n

\* Names of the lengths validateName distinguishes, two of them valid and distinct.
Names == {Rep("a", 0), Rep("a", 1), Rep("b", MaxNameLen), Rep("a", MaxNameLen + 1)}

\* Passwords of the lengths validatePassword distinguishes, two of them valid.
Passwords == {Rep("p", MinPasswordLen - 1), Rep("p", MinPasswordLen), Rep("q", MinPasswordLen + 1)}

NoUser == [none |-> TRUE]

\* An optional field of the update payload (a nil pointer or slice when absent).
Absent == <<>>
Some(x) == <<x>>

\* What a storage or library call of one handler run does: "none" lets every call
\* succeed, any other value makes the call of that name fail with a storage (or
\* library) error that is not NotFound.
Faults == {"none", "GetUser", "GetUserByName", "SaveUser", "ListUsers",
           "UpdateUser", "DeleteUser", "GenerateFromPassword", "Nanoid"}

Present(S) == {i \in Ids : S[i] # NoUser}

----------------------------------------------------------------------------
(* The credential codec (bcrypt) *)

\* bcrypt.GenerateFromPassword: a one-way digest, never the password itself.
GenerateFromPassword(password) == [bcrypt |-> password]

\* bcrypt.CompareHashAndPassword: nil exactly when the hash was made from the password.
CompareHashAndPassword(hash, password) ==
    IF hash = GenerateFromPassword(password) THEN "nil" ELSE "mismatch"

----------------------------------------------------------------------------
(* The storage capability (sto.IStorage).  Every call returns a record:    *)
(* err, val, and the storage's contents after the call.                    *)

GetUserByName(S, name, fault) ==
    IF fault = "GetUserByName" THEN [err |-> "Error", val |-> NoUser]
    ELSE IF \E i \in Present(S) : S[i].Name = name
         THEN [err |-> "nil", val |-> S[CHOOSE i \in Present(S) : S[i].Name = name]]
         ELSE [err |-> "NotFound", val |-> NoUser]

GetUser(S, id, fault) ==
    IF fault = "GetUser" THEN [err |-> "Error", val |-> NoUser]
    ELSE IF id \in Present(S) THEN [err |-> "nil", val |-> S[id]]
    ELSE [err |-> "NotFound", val |-> NoUser]

\* Names are unique: the storage refuses an account whose name another one holds.
SaveUser(S, user, fault) ==
    IF fault = "SaveUser" \/ \E i \in Present(S) : S[i].Name = user.Name
    THEN [err |-> "Error", users |-> S]
    ELSE [err |-> "nil", users |-> [S EXCEPT ![user.ID] = user]]

ListUsers(S, fault) ==
    IF fault = "ListUsers" THEN [err |-> "Error", val |-> {}]
    ELSE [err |-> "nil", val |-> {S[i] : i \in Present(S)}]

\* Applies the payload's present fields, as given, to the account of payload.ID.
UpdateUser(S, payload, fault) ==
    IF fault = "UpdateUser" THEN [err |-> "Error", users |-> S]
    ELSE IF payload.ID \notin Present(S) THEN [err |-> "NotFound", users |-> S]
    ELSE IF payload.Name # Absent
            /\ \E i \in Present(S) \ {payload.ID} : S[i].Name = payload.Name[1]
    THEN [err |-> "Error", users |-> S]
    ELSE LET old == S[payload.ID]
             new == [ID |-> old.ID,
                     Name |-> IF payload.Name # Absent THEN payload.Name[1] ELSE old.Name,
                     Password |-> IF payload.Password # Absent THEN payload.Password[1]
                                  ELSE old.Password,
                     IsAdmin |-> IF payload.IsAdmin # Absent THEN payload.IsAdmin[1]
                                 ELSE old.IsAdmin]
         IN [err |-> "nil", users |-> [S EXCEPT ![payload.ID] = new]]

DeleteUser(S, id, fault) ==
    IF fault = "DeleteUser" THEN [err |-> "Error", users |-> S]
    ELSE IF id \notin Present(S) THEN [err |-> "NotFound", users |-> S]
    ELSE [err |-> "nil", users |-> [S EXCEPT ![id] = NoUser]]

----------------------------------------------------------------------------
(* The repository.  Every method returns a record: err, val, the storage's  *)
(* contents after it, and log, the storage calls it made, in order.         *)

Ret(err, val, S, log) == [err |-> err, val |-> val, users |-> S, log |-> log]

\* validateName without its upper limit.
validateName_NoUpperLimit(name) == IF StrLen(name) = 0 THEN "ErrInvalidName" ELSE "nil"

validateName(name) ==
    IF StrLen(name) = 0 \/ StrLen(name) > MaxNameLen THEN "ErrInvalidName" ELSE "nil"

validatePassword(password) ==
    IF StrLen(password) < MinPasswordLen THEN "ErrInvalidPassword" ELSE "nil"

\* gonanoid.Nanoid: a random id; the ids in use are never drawn again.
generateUserID(S, fault) ==
    IF fault = "Nanoid" \/ Present(S) = Ids THEN {[err |-> "Error", val |-> 0]}
    ELSE {[err |-> "nil", val |-> i] : i \in Ids \ Present(S)}

\* errors.As(err, target) of golang.org/x/xerrors.  With a nil *NotFoundError as the
\* target it never reports a match: the releases that check the target panic, the
\* earlier ones find no error assignable to the pointed-to type and return false.
ErrorsAs(err, targetIsNil, release) ==
    IF targetIsNil THEN (IF release = "checked" THEN "panic" ELSE "false")
    ELSE IF err = "NotFound" THEN "true" ELSE "false"

XerrorsReleases == {"checked", "unchecked"}

\* The admin check: the requester's account is fetched; an unknown requester and a
\* requester that is no admin are denied alike.
checkIfRequesterIsAdmin(S, requesterID, fault) ==
    LET r == GetUser(S, requesterID, fault)
    IN IF r.err = "NotFound" THEN "Forbidden"
       ELSE IF r.err # "nil" THEN "Error"
       ELSE IF r.val.IsAdmin THEN "nil" ELSE "Forbidden"

CheckLoginCredentials(S, name, password, fault, release) ==
    LET r == GetUserByName(S, name, fault)
    IN IF r.err # "nil"
       THEN LET as == ErrorsAs(r.err, TRUE, release)
            IN IF as = "panic" THEN Ret("panic", FALSE, S, <<"GetUserByName">>)
               ELSE IF as = "true" THEN Ret("nil", FALSE, S, <<"GetUserByName">>)
               ELSE Ret("Error", FALSE, S, <<"GetUserByName">>)
       ELSE Ret("nil", CompareHashAndPassword(r.val.Password, password) = "nil",
                S, <<"GetUserByName">>)

\* Create saving the account before it validates the name and the password.
Create_SaveFirst(S, name, password, isAdmin, fault) ==
    {IF g.err # "nil" THEN Ret("Error", NoUser, S, <<>>)
     ELSE LET user == [ID |-> g.val, Name |-> name,
                       Password |-> GenerateFromPassword(password),
                       IsAdmin |-> isAdmin]
              w == SaveUser(S, user, fault)
          IN IF validateName(name) # "nil"
             THEN Ret(validateName(name), NoUser, w.users, <<"SaveUser">>)
             ELSE IF validatePassword(password) # "nil"
             THEN Ret(validatePassword(password), NoUser, w.users, <<"SaveUser">>)
             ELSE Ret(w.err, user, w.users, <<"SaveUser">>)
     : g \in generateUserID(S, fault)}

\* The set of outcomes: the id is drawn at random.
Create(S, name, password, isAdmin, fault) ==
    IF validateName(name) # "nil" THEN {Ret(validateName(name), NoUser, S, <<>>)}
    ELSE IF validatePassword(password) # "nil"
    THEN {Ret(validatePassword(password), NoUser, S, <<>>)}
    ELSE IF fault = "GenerateFromPassword" THEN {Ret("Error", NoUser, S, <<>>)}
    ELSE {IF g.err # "nil" THEN Ret("Error", NoUser, S, <<>>)
          ELSE LET user == [ID |-> g.val, Name |-> name,
                            Password |-> GenerateFromPassword(password),
                            IsAdmin |-> isAdmin]
                   w == SaveUser(S, user, fault)
               IN Ret(w.err, user, w.users, <<"SaveUser">>)
          : g \in generateUserID(S, fault)}

Get(S, id, fault) ==
    LET r == GetUser(S, id, fault) IN Ret(r.err, r.val, S, <<"GetUser">>)

List(S, fault) ==
    LET r == ListUsers(S, fault) IN Ret(r.err, r.val, S, <<"ListUsers">>)

\* Update looking the target up before it validates the patch.
Update_LookupFirst(S, payload, fault) ==
    IF payload.ID \notin Present(S) THEN Ret("NotFound", NoUser, S, <<"GetUser">>)
    ELSE IF payload.Name # Absent /\ validateName(payload.Name[1]) # "nil"
    THEN Ret(validateName(payload.Name[1]), NoUser, S, <<"GetUser">>)
    ELSE IF payload.Password # Absent /\ validatePassword(payload.Password[1]) # "nil"
    THEN Ret(validatePassword(payload.Password[1]), NoUser, S, <<"GetUser">>)
    ELSE LET w == UpdateUser(S, payload, fault)
         IN Ret(w.err, NoUser, w.users, <<"GetUser", "UpdateUser">>)

Update(S, payload, fault) ==
    IF payload.Name # Absent /\ validateName(payload.Name[1]) # "nil"
    THEN Ret(validateName(payload.Name[1]), NoUser, S, <<>>)
    ELSE IF payload.Password # Absent /\ validatePassword(payload.Password[1]) # "nil"
    THEN Ret(validatePassword(payload.Password[1]), NoUser, S, <<>>)
    ELSE LET w == UpdateUser(S, payload, fault)
         IN Ret(w.err, NoUser, w.users, <<"UpdateUser">>)

Delete(S, id, fault) ==
    LET w == DeleteUser(S, id, fault) IN Ret(w.err, NoUser, w.users, <<"DeleteUser">>)

\* The result of a method that runs `rest' after a guard that made one GetUser call.
Guarded(guard, S, rest) ==
    IF guard # "nil" THEN Ret(guard, NoUser, S, <<"GetUser">>)
    ELSE [rest EXCEPT !.log = <<"GetUser">> \o @]

CreateByUser(S, requesterID, name, password, isAdmin, fault) ==
    LET guard == checkIfRequesterIsAdmin(S, requesterID, fault)
    IN IF guard # "nil" THEN {Ret(guard, NoUser, S, <<"GetUser">>)}
       ELSE {Guarded(guard, S, r) : r \in Create(S, name, password, isAdmin, fault)}

\* GetByUser without the self-service exemption: the admin check always runs.
GetByUser_AdminOnly(S, requesterID, id, fault) ==
    Guarded(checkIfRequesterIsAdmin(S, requesterID, fault), S, Get(S, id, fault))

GetByUser(S, requesterID, id, fault) ==
    IF requesterID # id
    THEN Guarded(checkIfRequesterIsAdmin(S, requesterID, fault), S, Get(S, id, fault))
    ELSE Get(S, id, fault)

\* ListByUser without the admin check.
ListByUser_Unguarded(S, requesterID, fault) == List(S, fault)

ListByUser(S, requesterID, fault) ==
    Guarded(checkIfRequesterIsAdmin(S, requesterID, fault), S, List(S, fault))

\* UpdateByUser with the admin check on every call, self-service included.
UpdateByUser_AlwaysChecked(S, requesterID, user, fault) ==
    Guarded(checkIfRequesterIsAdmin(S, requesterID, fault), S, Update(S, user, fault))

UpdateByUser(S, requesterID, user, fault) ==
    IF requesterID # user.ID
    THEN Guarded(checkIfRequesterIsAdmin(S, requesterID, fault), S, Update(S, user, fault))
    ELSE Update(S, user, fault)

\* DeleteByUser deleting before it checks the requester.
DeleteByUser_DeleteFirst(S, requesterID, id, fault) ==
    LET d == Delete(S, id, fault)
        guard == checkIfRequesterIsAdmin(S, requesterID, fault)
    IN IF requesterID # id /\ guard # "nil"
       THEN Ret(guard, NoUser, d.users, <<"DeleteUser", "GetUser">>)
       ELSE d

DeleteByUser(S, requesterID, id, fault) ==
    IF requesterID # id
    THEN Guarded(checkIfRequesterIsAdmin(S, requesterID, fault), S, Delete(S, id, fault))
    ELSE Delete(S, id, fault)

----------------------------------------------------------------------------
(* The repository's calls, as actions.  `last' records the call, and in     *)
(* exAdmins the ids that the latest change of the storage took the admin    *)
(* flag from: their isAdmin was cleared, or their account deleted.          *)

Payloads == [ID : Ids,
             Name : {Absent} \cup {Some(n) : n \in Names},
             Password : {Absent} \cup {Some(p) : p \in Passwords},
             IsAdmin : {Absent} \cup {Some(b) : b \in BOOLEAN}]

NoPayload == [ID |-> 0, Name |-> Absent, Password |-> Absent, IsAdmin |-> Absent]

NoCall == [op |-> "none", req |-> 0, payload |-> NoPayload, fault |-> "none", err |-> "nil",
           val |-> NoUser, log |-> <<>>, pre |-> [i \in Ids |-> NoUser], exAdmins |-> {}]

\* The admins of a storage.
Admins(S) == {i \in Present(S) : S[i].IsAdmin}

\* A call runs when the caller has taken the result of its previous one.
CanCall == last.op = "none"

Called(op, requesterID, payload, fault, r) ==
    /\ users' = r.users
    /\ last' = [op |-> op, req |-> requesterID, payload |-> payload, fault |-> fault,
                err |-> r.err, val |-> r.val, log |-> r.log, pre |-> users,
                exAdmins |-> IF r.users = users THEN last.exAdmins
                             ELSE Admins(users) \ Admins(r.users)]
    /\ UNCHANGED smVars

CallCheckLoginCredentials ==
    /\ CanCall
    /\ \E name \in Names, password \in Passwords,
          fault \in {"none", "GetUserByName"}, release \in XerrorsReleases :
           Called("CheckLoginCredentials", 0,
                  [NoPayload EXCEPT !.Name = Some(name), !.Password = Some(password)],
                  fault, CheckLoginCredentials(users, name, password, fault, release))

CallCreate ==
    /\ CanCall
    /\ \E name \in Names, password \in Passwords, isAdmin \in BOOLEAN,
          fault \in {"none", "GenerateFromPassword", "Nanoid", "SaveUser"} :
           \E r \in Create(users, name, password, isAdmin, fault) :
               Called("Create", 0,
                      [NoPayload EXCEPT !.Name = Some(name), !.Password = Some(password),
                                        !.IsAdmin = Some(isAdmin)], fault, r)

CallGet ==
    /\ CanCall
    /\ \E id \in Ids, fault \in {"none", "GetUser"} :
           Called("Get", 0, [NoPayload EXCEPT !.ID = id], fault, Get(users, id, fault))

CallList ==
    /\ CanCall
    /\ \E fault \in {"none", "ListUsers"} :
           Called("List", 0, NoPayload, fault, List(users, fault))

CallUpdate ==
    /\ CanCall
    /\ \E payload \in Payloads, fault \in {"none", "UpdateUser"} :
           Called("Update", 0, payload, fault, Update(users, payload, fault))

CallDelete ==
    /\ CanCall
    /\ \E id \in Ids, fault \in {"none", "DeleteUser"} :
           Called("Delete", 0, [NoPayload EXCEPT !.ID = id], fault, Delete(users, id, fault))

CallCreateByUser ==
    /\ CanCall
    /\ \E requesterID \in Ids, name \in Names, password \in Passwords, isAdmin \in BOOLEAN,
          fault \in {"none", "GetUser", "GenerateFromPassword", "Nanoid", "SaveUser"} :
           \E r \in CreateByUser(users, requesterID, name, password, isAdmin, fault) :
               Called("CreateByUser", requesterID,
                      [NoPayload EXCEPT !.Name = Some(name), !.Password = Some(password),
                                        !.IsAdmin = Some(isAdmin)], fault, r)

CallGetByUser ==
    /\ CanCall
    /\ \E requesterID \in Ids, id \in Ids, fault \in {"none", "GetUser"} :
           Called("GetByUser", requesterID, [NoPayload EXCEPT !.ID = id], fault,
                  GetByUser(users, requesterID, id, fault))

CallListByUser ==
    /\ CanCall
    /\ \E requesterID \in Ids, fault \in {"none", "GetUser", "ListUsers"} :
           Called("ListByUser", requesterID, NoPayload, fault,
                  ListByUser(users, requesterID, fault))

CallUpdateByUser ==
    /\ CanCall
    /\ \E requesterID \in Ids, payload \in Payloads, fault \in {"none", "GetUser", "UpdateUser"} :
           Called("UpdateByUser", requesterID, payload, fault,
                  UpdateByUser(users, requesterID, payload, fault))

CallDeleteByUser ==
    /\ CanCall
    /\ \E requesterID \in Ids, id \in Ids, fault \in {"none", "GetUser", "DeleteUser"} :
           Called("DeleteByUser", requesterID, [NoPayload EXCEPT !.ID = id], fault,
                  DeleteByUser(users, requesterID, id, fault))

\* The caller takes the result.
Return ==
    /\ last.op # "none"
    /\ last' = [NoCall EXCEPT !.exAdmins = last.exAdmins]
    /\ UNCHANGED <<users, smVars>>

InitRepo ==
    /\ users = [i \in Ids |-> NoUser]
    /\ last = NoCall

NextRepo ==
    \/ CallCheckLoginCredentials
    \/ CallCreate
    \/ CallGet
    \/ CallList
    \/ CallUpdate
    \/ CallDelete
    \/ CallCreateByUser
    \/ CallGetByUser
    \/ CallListByUser
    \/ CallUpdateByUser
    \/ CallDeleteByUser
    \/ Return

----------------------------------------------------------------------------
(* The session provider (SessionProvider): sessions by id, purged by GC     *)
(* when their ExpiresOn has passed the provider's clock.                    *)

SessIds == 1..NumSessions
Times == 0..MaxNow
NoSession == [none |-> TRUE]

Stored(P) == {i \in SessIds : P[i] # NoSession}

\* A session is dead when its ExpiresOn has passed.
Dead(P, t) == {i \in Stored(P) : P[i].ExpiresOn < t}

ProviderAdd(P, session, fail) ==
    IF fail \/ session.ID \in Stored(P) THEN [err |-> "Error", sessions |-> P]
    ELSE [err |-> "nil", sessions |-> [P EXCEPT ![session.ID] = session]]

ProviderGet(P, id, fail) ==
    IF fail THEN [err |-> "Error", val |-> NoSession]
    ELSE IF id \notin Stored(P) THEN [err |-> "NotFound", val |-> NoSession]
    ELSE [err |-> "nil", val |-> P[id]]

ProviderGetByOwnerID(P, ownerID, fail) ==
    IF fail THEN [err |-> "Error", val |-> {}]
    ELSE [err |-> "nil", val |-> {i \in Stored(P) : P[i].OwnerID = ownerID}]

ProviderUpdate(P, session, fail) ==
    IF fail THEN [err |-> "Error", sessions |-> P]
    ELSE IF session.ID \notin Stored(P) THEN [err |-> "NotFound", sessions |-> P]
    ELSE [err |-> "nil", sessions |-> [P EXCEPT ![session.ID] = session]]

ProviderDelete(P, id, fail) ==
    IF fail THEN [err |-> "Error", sessions |-> P]
    ELSE IF id \notin Stored(P) THEN [err |-> "NotFound", sessions |-> P]
    ELSE [err |-> "nil", sessions |-> [P EXCEPT ![id] = NoSession]]

ProviderGC(P, t, fail) ==
    IF fail THEN [err |-> "Error", sessions |-> P]
    ELSE [err |-> "nil",
          sessions |-> [i \in SessIds |-> IF i \in Dead(P, t) THEN NoSession ELSE P[i]]]

----------------------------------------------------------------------------
(* The session manager's methods over the provider: each delegates.         *)

Add(P, session, fail) == ProviderAdd(P, session, fail)
SessionGet(P, id, fail) == ProviderGet(P, id, fail)
GetByOwnerID(P, ownerID, fail) == ProviderGetByOwnerID(P, ownerID, fail)
SessionUpdate(P, session, fail) == ProviderUpdate(P, session, fail)
SessionDelete(P, id, fail) == ProviderDelete(P, id, fail)
\* GC returning nil without calling the provider.
GC_NotDelegated(P, t, fail) == [err |-> "nil", sessions |-> P]

GC(P, t, fail) == ProviderGC(P, t, fail)

----------------------------------------------------------------------------
(* EnableAutoGC, DisableAutoGC and the loop, one access to the flag per     *)
(* step: the code reads and writes autoGCShouldBeRunning without a lock.    *)
(* What a thread does between two accesses that no other thread can see     *)
(* (the go statement, the return, time.Sleep) belongs to the step of the    *)
(* access before it.  `callers' holds each calling thread's place.          *)

\* EnableAutoGC without its test of the flag.
EnableAutoGCCheck_Untested(running) == "nil"

\* EnableAutoGC's test of the flag.
EnableAutoGCCheck(running) == IF running THEN "AlreadyRunning" ELSE "nil"

\* The value EnableAutoGC writes to the flag.
EnableAutoGCWrite == TRUE

\* DisableAutoGC's test of the flag.
DisableAutoGCCheck(running) == IF ~running THEN "NotRunning" ELSE "nil"

\* The value DisableAutoGC writes to the flag.
DisableAutoGCWrite == FALSE

\* A loop that tests the flag before its first round only.
LoopCondition_FirstRoundOnly(running) == "gc"

\* The loop's condition: where the goroutine goes on reading the flag.
LoopCondition(running) == IF running THEN "gc" ELSE "exited"

\* A loop that a failing GC ends.
LoopAfterGC_FailureEnds(err) == IF err # "nil" THEN "exited" ELSE "check"

\* Where the goroutine goes after manager.GC() and time.Sleep(x), whatever GC
\* returned: back to the loop's condition.
LoopAfterGC(err) == "check"

Callers == 1..NumCallers

\* The calls of EnableAutoGC and DisableAutoGC that have begun and not returned.
InFlight == {c \in Callers : callers[c].pc # "idle"}

\* The goroutines that have not ended.
Live == 1..Len(loops)

\* A goroutine: its place in the loop, and the GC calls it has begun since the flag
\* was last cleared and not set again.
Loop(pc, gcs) == [pc |-> pc, gcs |-> gcs]

\* The goroutines after goroutine l moves to pc; one that exits is no longer held.
Goto(l, pc, gcs) ==
    IF pc = "exited" THEN SubSeq(loops, 1, l - 1) \o SubSeq(loops, l + 1, Len(loops))
    ELSE [loops EXCEPT ![l] = Loop(pc, gcs)]

Min(a, b) == IF a < b THEN a ELSE b

\* A returned call: the flag as its test read it, its result, the flag as it returned;
\* for the loop's GC, the sessions it purged; for a goroutine that ended, the GC calls
\* it had begun since the flag was cleared; for a thread's call of GC, the sessions
\* the call found.
Returned(op, pre, res, post) ==
    [op |-> op, pre |-> pre, res |-> res, post |-> post, purged |-> {}, gcs |-> 0,
     before |-> [i \in SessIds |-> NoSession]]
NoRet == Returned("none", FALSE, "nil", FALSE)

Idle == [pc |-> "idle", pre |-> FALSE]

\* EnableAutoGC setting the flag before it tests it.
EnableAutoGCBegin_SetsFirst(c) ==
    /\ callers[c].pc = "idle"
    /\ autoGCShouldBeRunning' = EnableAutoGCWrite
    /\ ret' = Returned("EnableAutoGC", EnableAutoGCWrite,
                       EnableAutoGCCheck(EnableAutoGCWrite), EnableAutoGCWrite)
    /\ UNCHANGED <<repoVars, sessions, now, loops, callers, hist>>

\* Thread c enters EnableAutoGC and tests the flag; it returns at once when set.
EnableAutoGCBegin(c) ==
    /\ callers[c].pc = "idle"
    /\ LET res == EnableAutoGCCheck(autoGCShouldBeRunning)
       IN IF res # "nil"
          THEN /\ ret' = Returned("EnableAutoGC", autoGCShouldBeRunning, res,
                                  autoGCShouldBeRunning)
               /\ hist' = [hist EXCEPT !.overlapped = @ \/ InFlight # {}]
               /\ UNCHANGED callers
          ELSE /\ hist.spawned + Cardinality({d \in Callers :
                        callers[d].pc = "enable_set"}) < MaxLoops
               /\ callers' = [callers EXCEPT ![c] = [pc |-> "enable_set",
                                                     pre |-> autoGCShouldBeRunning]]
               /\ ret' = NoRet
               /\ hist' = [hist EXCEPT !.overlapped = @ \/ InFlight # {},
                                       !.okSinceStop = Min(@ + 1, 2)]
    /\ UNCHANGED <<repoVars, sessions, now, autoGCShouldBeRunning, loops>>

\* manager.autoGCShouldBeRunning = true; go func() { ... }(); return nil
EnableAutoGCSet(c) ==
    /\ callers[c].pc = "enable_set"
    /\ callers' = [callers EXCEPT ![c] = Idle]
    /\ autoGCShouldBeRunning' = EnableAutoGCWrite
    /\ loops' = Append(IF EnableAutoGCWrite THEN [l \in Live |-> Loop(loops[l].pc, 0)]
                       ELSE loops,
                       Loop("check", 0))
    /\ ret' = Returned("EnableAutoGC", callers[c].pre, "nil", EnableAutoGCWrite)
    /\ hist' = [hist EXCEPT !.spawned = @ + 1]
    /\ UNCHANGED <<repoVars, sessions, now>>

\* Thread c enters DisableAutoGC and tests the flag; it returns at once when clear.
DisableAutoGCBegin(c) ==
    /\ callers[c].pc = "idle"
    /\ LET res == DisableAutoGCCheck(autoGCShouldBeRunning)
       IN IF res # "nil"
          THEN /\ ret' = Returned("DisableAutoGC", autoGCShouldBeRunning, res,
                                  autoGCShouldBeRunning)
               /\ UNCHANGED callers
          ELSE /\ callers' = [callers EXCEPT ![c] = [pc |-> "disable_set",
                                                     pre |-> autoGCShouldBeRunning]]
               /\ ret' = NoRet
    /\ hist' = [hist EXCEPT !.overlapped = @ \/ InFlight # {}]
    /\ UNCHANGED <<repoVars, sessions, now, autoGCShouldBeRunning, loops>>

\* manager.autoGCShouldBeRunning = false, and return nil
DisableAutoGCSet(c) ==
    /\ callers[c].pc = "disable_set"
    /\ callers' = [callers EXCEPT ![c] = Idle]
    /\ autoGCShouldBeRunning' = DisableAutoGCWrite
    /\ ret' = Returned("DisableAutoGC", callers[c].pre, "nil", DisableAutoGCWrite)
    /\ hist' = [hist EXCEPT !.okSinceStop = IF DisableAutoGCWrite THEN @ ELSE 0]
    /\ UNCHANGED <<repoVars, sessions, now, loops>>

\* for manager.autoGCShouldBeRunning { ... }
LoopCheck(l) ==
    /\ l \in Live
    /\ loops[l].pc = "check"
    /\ LET pc == LoopCondition(autoGCShouldBeRunning)
       IN /\ loops' = Goto(l, pc, loops[l].gcs)
          /\ ret' = IF pc = "exited"
                    THEN [Returned("LoopExit", autoGCShouldBeRunning, "nil",
                                   autoGCShouldBeRunning) EXCEPT !.gcs = loops[l].gcs]
                    ELSE NoRet
    /\ UNCHANGED <<repoVars, sessions, now, autoGCShouldBeRunning, callers, hist>>

\* manager.GC() run by the loop, then time.Sleep(x); the provider's GC purges
\* (fail = FALSE) or fails.
LoopGCWith(l, fail) ==
    /\ l \in Live
    /\ loops[l].pc = "gc"
    /\ LET r == GC(sessions, now, fail)
       IN /\ sessions' = r.sessions
          /\ loops' = Goto(l, LoopAfterGC(r.err),
                           IF autoGCShouldBeRunning THEN loops[l].gcs
                           ELSE Min(loops[l].gcs + 1, 2))
          /\ ret' = [Returned("LoopGC", autoGCShouldBeRunning, r.err, autoGCShouldBeRunning)
                       EXCEPT !.purged = Stored(sessions) \ Stored(r.sessions)]
    /\ UNCHANGED <<repoVars, now, autoGCShouldBeRunning, callers, hist>>

\* manager.GC(), its error dropped; time.Sleep(x)
LoopGC(l) == \E fail \in BOOLEAN : LoopGCWith(l, fail)

LoopStep == \E l \in 1..MaxLoops : LoopCheck(l) \/ LoopGC(l)

----------------------------------------------------------------------------
(* The session manager's other calls, and the clock.                        *)

Session(id, ownerID, expiresOn, createdAt) ==
    [ID |-> id, OwnerID |-> ownerID, ExpiresOn |-> expiresOn, CreatedAt |-> createdAt]

\* The accounts that own sessions.
Owners == {1}

\* When the sessions were created: as the provider's clock starts.
Created == 0

\* The authentication layer adds a session that expires Lifetime after its creation.
CallAdd ==
    /\ \E id \in SessIds, ownerID \in Owners, fail \in BOOLEAN :
        sessions' = Add(sessions, Session(id, ownerID, Created + Lifetime, Created),
                        fail).sessions
    /\ ret' = NoRet
    /\ UNCHANGED <<repoVars, now, autoGCShouldBeRunning, loops, callers, hist>>

CallSessionGet ==
    /\ \E id \in SessIds, fail \in BOOLEAN :
        ret' = Returned("Get", autoGCShouldBeRunning, SessionGet(sessions, id, fail).err,
                        autoGCShouldBeRunning)
    /\ UNCHANGED <<repoVars, sessions, now, autoGCShouldBeRunning, loops, callers, hist>>

CallGetByOwnerID ==
    /\ \E ownerID \in Ids, fail \in BOOLEAN :
        ret' = Returned("GetByOwnerID", autoGCShouldBeRunning,
                        GetByOwnerID(sessions, ownerID, fail).err, autoGCShouldBeRunning)
    /\ UNCHANGED <<repoVars, sessions, now, autoGCShouldBeRunning, loops, callers, hist>>

\* A stored session's ExpiresOn is moved.
CallSessionUpdate ==
    /\ \E id \in SessIds, expiresOn \in Times, fail \in BOOLEAN :
        LET old == IF id \in Stored(sessions) THEN sessions[id]
                   ELSE Session(id, 1, expiresOn, Created)
            r == SessionUpdate(sessions,
                               Session(id, old.OwnerID, expiresOn, old.CreatedAt), fail)
        IN /\ sessions' = r.sessions
           /\ ret' = Returned("Update", autoGCShouldBeRunning, r.err, autoGCShouldBeRunning)
    /\ UNCHANGED <<repoVars, now, autoGCShouldBeRunning, loops, callers, hist>>

CallSessionDelete ==
    /\ \E id \in SessIds, fail \in BOOLEAN :
        LET r == SessionDelete(sessions, id, fail)
        IN /\ sessions' = r.sessions
           /\ ret' = Returned("Delete", autoGCShouldBeRunning, r.err, autoGCShouldBeRunning)
    /\ UNCHANGED <<repoVars, now, autoGCShouldBeRunning, loops, callers, hist>>

CallGC ==
    /\ \E fail \in BOOLEAN :
        LET r == GC(sessions, now, fail)
        IN /\ sessions' = r.sessions
           /\ ret' = [Returned("GC", autoGCShouldBeRunning, r.err, autoGCShouldBeRunning)
                        EXCEPT !.before = sessions]
    /\ UNCHANGED <<repoVars, now, autoGCShouldBeRunning, loops, callers, hist>>

Tick ==
    /\ now < MaxNow
    /\ now' = now + 1
    /\ ret' = NoRet
    /\ UNCHANGED <<repoVars, sessions, autoGCShouldBeRunning, loops, callers, hist>>

----------------------------------------------------------------------------
(* Specifications *)

\* NewSessionManager: the flag clear, no goroutine.
InitSM ==
    /\ sessions = [i \in SessIds |-> NoSession]
    /\ now = 0
    /\ autoGCShouldBeRunning = FALSE
    /\ loops = <<>>
    /\ callers = [c \in Callers |-> Idle]
    /\ ret = NoRet
    /\ hist = [overlapped |-> FALSE, okSinceStop |-> 0, spawned |-> 0]

EnableAutoGC(c) == EnableAutoGCBegin(c) \/ EnableAutoGCSet(c)

DisableAutoGC(c) == DisableAutoGCBegin(c) \/ DisableAutoGCSet(c)

CallEnableAutoGC == \E c \in Callers : EnableAutoGC(c)

CallDisableAutoGC == \E c \in Callers : DisableAutoGC(c)

NextSM ==
    \/ CallEnableAutoGC
    \/ CallDisableAutoGC
    \/ LoopStep
    \/ CallAdd
    \/ CallSessionGet
    \/ CallGetByOwnerID
    \/ CallSessionUpdate
    \/ CallSessionDelete
    \/ CallGC
    \/ Tick

\* The session operations and the clock, Auto-GC never enabled.
NextSessions ==
    \/ CallAdd
    \/ CallSessionGet
    \/ CallGetByOwnerID
    \/ CallSessionUpdate
    \/ CallSessionDelete
    \/ CallGC
    \/ Tick

\* The calls threads make of the session manager, no goroutine of it scheduled
\* meanwhile.
NextCalls ==
    \/ CallEnableAutoGC
    \/ CallDisableAutoGC
    \/ CallAdd
    \/ CallSessionGet
    \/ CallGetByOwnerID
    \/ CallSessionUpdate
    \/ CallSessionDelete
    \/ CallGC

\* The auto-GC machinery alone: the threads that switch it and its goroutines.
NextSwitch ==
    \/ CallEnableAutoGC
    \/ CallDisableAutoGC
    \/ LoopStep

\* The auto-GC machinery with sessions added and time passing: no thread calls
\* Update, Delete or GC itself.
NextAutoGC ==
    \/ CallEnableAutoGC
    \/ CallDisableAutoGC
    \/ LoopStep
    \/ CallAdd
    \/ Tick

Init == InitRepo /\ InitSM

Next == NextRepo \/ NextSM

\* The whole program.
Spec == Init /\ [][Next]_vars

\* The account repository alone.
SpecRepo == Init /\ [][NextRepo]_vars

\* The session manager alone.
SpecSM == Init /\ [][NextSM]_vars

\* The session operations with Auto-GC never enabled.
SpecSessions == Init /\ [][NextSessions]_vars

\* The threads' calls of the session manager.
SpecCalls == Init /\ [][NextCalls]_vars

\* The auto-GC machinery alone, under any scheduler.
SpecSwitch == Init /\ [][NextSwitch]_vars

\* The scheduler runs every goroutine that can take a step, and every thread that is
\* inside a call; nothing makes a thread begin a call.
Fairness ==
    /\ \A l \in 1..MaxLoops : WF_vars(LoopCheck(l) \/ LoopGC(l))
    /\ \A c \in Callers : WF_vars(EnableAutoGCSet(c) \/ DisableAutoGCSet(c))

\* The auto-GC machinery alone, under a fair scheduler.
FairSwitch == Init /\ [][NextSwitch]_vars /\ Fairness

\* The auto-GC machinery over sessions that expire, under a fair scheduler.
FairSpec == Init /\ [][NextAutoGC]_vars /\ Fairness

----------------------------------------------------------------------------
(* Claims about the account repository.  They read `last', the call that    *)
(* has just run: its arguments, the storage before it (pre) and after it    *)
(* (users), its result and the storage calls it made (log).                 *)

ByUserOps == {"CreateByUser", "GetByUser", "ListByUser", "UpdateByUser", "DeleteByUser"}

Writes == {"SaveUser", "UpdateUser", "DeleteUser"}

\* The requester of the last call was a stored account that is no admin.
RequesterNonAdmin == last.req \in Present(last.pre) /\ ~last.pre[last.req].IsAdmin

\* The requester of the last call was a stored admin.
RequesterAdmin == last.req \in Present(last.pre) /\ last.pre[last.req].IsAdmin

\* The requester of the last call was no stored account.
RequesterUnknown == last.req \notin Present(last.pre)

TargetStored == last.payload.ID \in Present(last.pre)

\* C2: a non-admin requester's UpdateByUser on its own account with a patch that sets
\* isAdmin fails with Forbidden and leaves the stored isAdmin as it was, while its
\* patch of name and/or secret alone is not denied.
C2_SelfServiceCannotSetIsAdmin ==
    (last.op = "UpdateByUser" /\ last.req = last.payload.ID /\ RequesterNonAdmin)
        => /\ last.payload.IsAdmin # Absent
                => (last.err = "Forbidden" /\ users[last.req].IsAdmin = FALSE)
           /\ last.payload.IsAdmin = Absent => last.err # "Forbidden"

\* C5: whenever a call returns Forbidden, it made no SaveUser, UpdateUser or
\* DeleteUser call and the stored accounts are what they were before it.
C5_ForbiddenTouchesNothing ==
    last.err = "Forbidden"
        => /\ users = last.pre
           /\ \A k \in 1..Len(last.log) : last.log[k] \notin Writes

\* C5's case: a non-admin's DeleteByUser on another, stored account was denied.
C5_Witness ==
    /\ last.op = "DeleteByUser"
    /\ last.err = "Forbidden"
    /\ RequesterNonAdmin
    /\ last.req # last.payload.ID
    /\ TargetStored

\* C6: GetByUser and DeleteByUser on a stored target, the storage not failing: the
\* call goes through when the requester is the target, whether admin or not, and when
\* the requester is an admin; it fails with Forbidden when the requester is another
\* account that is no admin (or no account at all).
C6_SelfOrAdmin ==
    (last.op \in {"GetByUser", "DeleteByUser"} /\ TargetStored /\ last.fault = "none")
        => LET allowed == last.req = last.payload.ID \/ RequesterAdmin
           IN /\ allowed => last.err = "nil"
              /\ (allowed /\ last.op = "GetByUser")
                    => (last.val = last.pre[last.payload.ID] /\ users = last.pre)
              /\ (allowed /\ last.op = "DeleteByUser")
                    => users = [last.pre EXCEPT ![last.payload.ID] = NoUser]
              /\ ~allowed => (last.err = "Forbidden" /\ users = last.pre)

\* C6's case: a non-admin read its own account.
C6_Witness ==
    /\ last.op = "GetByUser"
    /\ last.req = last.payload.ID
    /\ RequesterNonAdmin
    /\ last.err = "nil"
    /\ \E i \in Present(users) : users[i].IsAdmin

\* C7 as claimed: an authorization-checked call whose requester is no stored account
\* is denied with Forbidden (the storage not failing), also when the requester names
\* its own id as the target.
C7_UnknownRequesterForbidden ==
    (last.op \in ByUserOps /\ RequesterUnknown /\ last.fault = "none")
        => last.err = "Forbidden"

\* The admin check runs on every CreateByUser and ListByUser, and on the other calls
\* when the requester is not the target.
AdminCheckRuns ==
    last.op \in {"CreateByUser", "ListByUser"} \/ last.req # last.payload.ID

\* C7 as amended: where the admin check runs, a requester that is no stored account
\* is denied with Forbidden, never NotFound, and nothing is stored; a requester that
\* names its own id as the target is not checked and gets what the operation under
\* the check returns: NotFound, or Update's validation error.
C7_UnknownRequesterWhereChecked ==
    (last.op \in ByUserOps /\ RequesterUnknown /\ last.fault = "none")
        => /\ AdminCheckRuns => (last.err = "Forbidden" /\ users = last.pre)
           /\ (~AdminCheckRuns /\ last.op \in {"GetByUser", "DeleteByUser"})
                => last.err = "NotFound"
           /\ (~AdminCheckRuns /\ last.op = "UpdateByUser")
                => last.err \in {"NotFound", "ErrInvalidName", "ErrInvalidPassword"}

\* C7's case: a requester whose account is not stored asked for its own id.
C7_Witness ==
    /\ last.op = "GetByUser"
    /\ RequesterUnknown
    /\ last.req = last.payload.ID
    /\ last.err = "NotFound"
    /\ Present(users) # {}

\* The stored account of the name the last call gave, if any.
NamedAccounts == {i \in Present(last.pre) : Some(last.pre[i].Name) = last.payload.Name}

\* C8: CheckLoginCredentials returns (false, nil) when no account has the name,
\* (true, nil) exactly when the account exists and the password verifies against its
\* stored hash, (false, nil) when it does not verify, and an error only when the
\* storage fails otherwise than with NotFound.
C8_CheckLoginCredentials ==
    last.op = "CheckLoginCredentials"
        => /\ last.fault = "none" => last.err = "nil"
           /\ (last.fault = "none" /\ NamedAccounts = {}) => last.val = FALSE
           /\ (last.fault = "none" /\ NamedAccounts # {})
                => last.val = (\E i \in NamedAccounts :
                        CompareHashAndPassword(last.pre[i].Password,
                                               last.payload.Password[1]) = "nil")
           /\ last.fault # "none" => last.err = "Error"

----------------------------------------------------------------------------
(* Claims about the session manager.                                        *)

\* C1: EnableAutoGC's test of the flag and its write of it are one atomic step: of
\* the calls that overlap while the manager is stopped at most one passes the test
\* (and so returns nil and spawns a loop).  hist.okSinceStop counts the calls that
\* have passed the test since the flag was last cleared.
C1_EnableIsAtomic == hist.okSinceStop <= 1

\* C3: with calls of EnableAutoGC and DisableAutoGC that never overlap, at most one
\* loop is live in every state.
C3_AtMostOneLoop == ~hist.overlapped => Cardinality(Live) <= 1

C9_LoopStops ==
    /\ [](~autoGCShouldBeRunning => \A l \in Live : loops[l].gcs <= 1)
    /\ (<>[](~autoGCShouldBeRunning)) => <>[](Live = {})

\* C9's case: after DisableAutoGC a loop ran one more GC and ended.
C9_Witness ==
    /\ ~autoGCShouldBeRunning
    /\ ret.op = "LoopExit"
    /\ ret.gcs = 1

DeadNow == Dead(sessions, now)

GCNotFailingForever ==
    ([]<>(ret.op = "LoopGC")) => []<>(ret.op = "LoopGC" /\ ret.res = "nil")

----------------------------------------------------------------------------
(* Further claims about the account repository.                             *)

\* What the credential codec produces.
Hashes == {GenerateFromPassword(p) : p \in Passwords}

\* C11: the credential stored for every account is an output of the codec's hash,
\* never the plaintext secret that Create or Update was given.
C11_StoredCredentialIsHash == \A i \in Present(users) : users[i].Password \in Hashes

ValidationErrors == {"ErrInvalidName", "ErrInvalidPassword"}

\* C12: Create, and Update for the fields its patch gives, fail with ErrInvalidName for
\* a name of length 0 or above 100 and (the name passing) with ErrInvalidPassword for
\* a password shorter than 6, and do not fail validation for names of 1 to 100 and
\* passwords of 6 or more; a field absent from Update's patch is not validated.
C12_Validation ==
    LET name == last.payload.Name
        password == last.payload.Password
        nameBad == name # Absent /\ (StrLen(name[1]) = 0 \/ StrLen(name[1]) > 100)
        passwordBad == password # Absent /\ StrLen(password[1]) < 6
    IN last.op \in {"Create", "Update"}
        => /\ nameBad => last.err = "ErrInvalidName"
           /\ (~nameBad /\ passwordBad) => last.err = "ErrInvalidPassword"
           /\ (~nameBad /\ ~passwordBad) => last.err \notin ValidationErrors
           /\ name = Absent => last.err # "ErrInvalidName"
           /\ password = Absent => last.err # "ErrInvalidPassword"

\* C12's case: an Update that gives a name of the greatest length allowed and no
\* password has passed validation and been applied.
C12_Witness ==
    /\ last.op = "Update"
    /\ last.payload.Name # Absent
    /\ StrLen(last.payload.Name[1]) = 100
    /\ last.payload.Password = Absent
    /\ last.err = "nil"

\* The accounts Create stores with isAdmin false.
NonAdminAccounts(i) ==
    {[ID |-> i, Name |-> n, Password |-> GenerateFromPassword(p), IsAdmin |-> FALSE] :
        n \in {m \in Names : validateName(m) = "nil"},
        p \in {q \in Passwords : validatePassword(q) = "nil"}}

\* The storages that hold accounts of distinct names, none of them an admin.
NonAdminStorages ==
    {S \in [Ids -> {NoUser} \cup UNION {NonAdminAccounts(i) : i \in Ids}] :
        /\ \A i \in Present(S) : S[i].ID = i
        /\ \A i, j \in Present(S) : S[i].Name = S[j].Name => i = j}

\* A storage without admins, as trusted callers have filled it.
InitByUser ==
    /\ users \in NonAdminStorages
    /\ last = NoCall
    /\ InitSM

\* The authorization-checked writes.
NextByUser ==
    \/ CallCreateByUser
    \/ CallUpdateByUser
    \/ CallDeleteByUser
    \/ Return

\* Actors that use only the authorization-checked writes, on a storage without admins.
SpecByUser == InitByUser /\ [][NextByUser]_vars

\* C13: starting from accounts that are all non-admin, with only CreateByUser,
\* UpdateByUser and DeleteByUser called, no account ever becomes admin.
C13_NoAdminFromNonAdmins == \A i \in Present(users) : ~users[i].IsAdmin

\* C14: CreateByUser and ListByUser are denied with Forbidden exactly when the
\* requester is not an admin in the storage as the call finds it; a requester that
\* the latest change of the storage took the admin flag from (cleared by Update, or
\* deleted) is denied.
C14_AdminOnlyFresh ==
    (last.op \in {"CreateByUser", "ListByUser"} /\ last.fault # "GetUser")
        => /\ (last.err = "Forbidden") <=> ~RequesterAdmin
           /\ (last.req \in last.exAdmins /\ users = last.pre) => last.err = "Forbidden"

\* C14's case: an account that was an admin and had its isAdmin cleared has called
\* CreateByUser and been denied.
C14_Witness ==
    /\ last.op = "CreateByUser"
    /\ last.req \in last.exAdmins
    /\ last.req \in Present(last.pre)
    /\ last.err = "Forbidden"

\* C16 as claimed: Update on a target that is not stored fails with NotFound, whatever
\* the patch holds (the storage itself not failing).
C16_NotFoundFirst ==
    (last.op = "Update" /\ last.fault = "none" /\ ~TargetStored) => last.err = "NotFound"

\* The patch of the last call gives a name, or a password, that validation rejects.
PatchNameBad ==
    /\ last.payload.Name # Absent
    /\ StrLen(last.payload.Name[1]) = 0 \/ StrLen(last.payload.Name[1]) > 100
PatchPasswordBad ==
    /\ last.payload.Password # Absent
    /\ StrLen(last.payload.Password[1]) < 6

\* C16 as amended: Update validates the patch before it reaches the storage, so a bad
\* name or password fails with its validation error whether or not the target is
\* stored; NotFound and storage failures are returned only for a patch that passes
\* validation, NotFound when the target is not stored.
C16_ValidationFirst ==
    last.op = "Update"
        => /\ PatchNameBad => last.err = "ErrInvalidName"
           /\ (~PatchNameBad /\ PatchPasswordBad) => last.err = "ErrInvalidPassword"
           /\ last.err \in {"NotFound", "Error"} => (~PatchNameBad /\ ~PatchPasswordBad)
           /\ (~PatchNameBad /\ ~PatchPasswordBad /\ ~TargetStored /\ last.fault = "none")
                => last.err = "NotFound"

\* C16's case: an Update of an account that is not stored, with a bad name, has
\* failed validation.
C16_Witness ==
    /\ last.op = "Update"
    /\ ~TargetStored
    /\ PatchNameBad
    /\ last.err = "ErrInvalidName"
    /\ Present(users) # {}

\* C18: a Create or Update that returns ErrInvalidName or ErrInvalidPassword has made
\* no storage call and left the stored accounts as they were; a Create whose hashing
\* or id generation fails has made no SaveUser call either.
C18_InvalidWritesNothing ==
    /\ (last.op \in {"Create", "Update"} /\ last.err \in ValidationErrors)
         => (last.log = <<>> /\ users = last.pre)
    /\ (last.op = "Create" /\ last.fault \in {"GenerateFromPassword", "Nanoid"})
         => /\ last.err # "nil"
            /\ \A k \in 1..Len(last.log) : last.log[k] # "SaveUser"
            /\ users = last.pre

\* C18's case: a Create with a password that is too short has failed, accounts being
\* stored already.
C18_Witness ==
    /\ last.op = "Create"
    /\ last.err = "ErrInvalidPassword"
    /\ Present(users) # {}

----------------------------------------------------------------------------
(* Further claims about the session manager.                                *)

C15_WitnessKept ==
    /\ ret.op = "GC"
    /\ ret.res = "nil"
    /\ \E i \in Stored(ret.before) : ret.before[i].ExpiresOn = now /\ i \in Stored(sessions)

\* C19: a call of EnableAutoGC or DisableAutoGC that fails leaves the flag and the
\* live goroutines as they were, and no call of Add, Get, GetByOwnerID, Update, Delete
\* or GC changes the flag.
C19_FailedCallsAndSessionCallsKeepTheFlag ==
    [][/\ (ret'.op \in {"EnableAutoGC", "DisableAutoGC"} /\ ret'.res # "nil")
            => (autoGCShouldBeRunning' = autoGCShouldBeRunning /\ loops' = loops)
       /\ (CallAdd \/ ret'.op \in {"Get", "GetByOwnerID", "Update", "Delete", "GC"})
            => autoGCShouldBeRunning' = autoGCShouldBeRunning]_vars

\* C19's case: a DisableAutoGC has failed while a goroutine of an earlier EnableAutoGC
\* was still live.
C19_Witness ==
    /\ ret.op = "DisableAutoGC"
    /\ ret.res = "NotRunning"
    /\ Live # {}
    /\ ~autoGCShouldBeRunning

\* C17: a failure of the GC the loop calls changes neither the flag, nor the live
\* goroutines, nor any thread's call, and if the flag stays set the loop calls GC
\* again and again, whether or not GC fails.
C17_GCFailureSwallowed ==
    /\ [][(ret'.op = "LoopGC" /\ ret'.res # "nil")
            => /\ autoGCShouldBeRunning' = autoGCShouldBeRunning
               /\ Len(loops') = Len(loops)
               /\ callers' = callers]_vars
    /\ (<>[]autoGCShouldBeRunning) => []<>(ret.op = "LoopGC")

\* C17's case: the loop's GC has failed, the flag set and the goroutine live.
C17_Witness ==
    /\ ret.op = "LoopGC"
    /\ ret.res = "Error"
    /\ autoGCShouldBeRunning
    /\ Live # {}

====
